---- MODULE Spec2Model ----
(***************************************************************************)
(* Model of bus_api.py: the /chat endpoint of the Punjab Bus Assistant.    *)
(* Texts are sequences of one-character strings.  The language model and   *)
(* the SQL store are external: their answers are drawn from small sets.    *)
(* FastAPI runs the synchronous handler chat_endpoint in a thread pool, so *)
(* several invocations interleave statement by statement on the shared     *)
(* chat_history deque and on the one connection db, whose open transaction *)
(* (autocommit is off, the handler commits by hand) they also share.       *)
(* A database call fails because the statement is refused or because the   *)
(* connection is down; a connection that went down stays down.             *)
(***************************************************************************)
EXTENDS Integers, Sequences, FiniteSets, TLC

VARIABLES
    chat_history,   \* the deque of (user_input, response_text) turns
    connected,      \* the one connection db is alive (it is never reopened)
    pending,        \* chatlogs rows inserted on the shared connection, not yet committed
    chatlogs,       \* the committed rows of the chatlogs table
    pc,             \* position of each pool thread in chat_endpoint
    req,            \* the ChatRequest a thread is serving
    raw_text,       \* response.text inside generate_sql
    sql_query, results, response_text,      \* locals of chat_endpoint
    gen_context, fmt_context,               \* local context of generate_sql / format_response
    response,       \* what the invocation returned to the caller, if anything
    error,          \* the call whose exception ended the invocation
    started,        \* number of requests received so far
    own_row,        \* history: where the row of a thread's request is:
                    \*   "none", "pending" (inserted) or "durable" (committed)
    appended,       \* history: every turn ever appended, in order
    formatted,      \* history: every turn whose formatting completed, in order
    logged          \* history: number of requests whose commit returned

locals == <<req, raw_text, sql_query, results, response_text, gen_context,
            fmt_context>>

vars == <<chat_history, connected, pending, chatlogs, pc, locals, response, error,
          started, own_row, appended, formatted, logged>>

(* ------------------------------ bounds --------------------------------- *)
MaxRequests == 3
MaxRequestsSeq == 7
MaxRequestsLong == 6
MaxInner == 2

(* --------------------------- program constants ------------------------- *)
MAXLEN == 5

Threads == {"t1", "t2"}
SeqThreads == {"t1"}

(* ------------------------------- texts --------------------------------- *)
Whitespace == {" ", "\n"}
\* the grave accent character (U+0060), which a TLA+ string cannot hold
BACKTICK == "<backtick>"
FENCE_SQL == <<BACKTICK, BACKTICK, BACKTICK, "s", "q", "l">>
FENCE == <<BACKTICK, BACKTICK, BACKTICK>>
NL == <<"\n">>
USER_PREFIX == <<"U", "s", "e", "r", ":", " ">>
BOT_PREFIX == <<"B", "o", "t", ":", " ">>
SCHEMA_PROMPT == <<"<SCHEMA_PROMPT>">>
Unset == <<"<unset>">>

Chars(s) == {s[i] : i \in 1..Len(s)}

RECURSIVE lstrip(_, _)
lstrip(s, chars) ==
    IF s # <<>> /\ Head(s) \in chars THEN lstrip(Tail(s), chars) ELSE s

RECURSIVE rstrip(_, _)
rstrip(s, chars) ==
    IF s # <<>> /\ s[Len(s)] \in chars
    THEN rstrip(SubSeq(s, 1, Len(s) - 1), chars)
    ELSE s

\* str.strip(chars): removes from both ends every character that is a
\* member of chars (a character set, not a prefix or suffix).
strip(s, chars) == rstrip(lstrip(s, chars), chars)

RECURSIVE join(_, _)
join(sep, parts) ==
    IF parts = <<>> THEN <<>>
    ELSE IF Len(parts) = 1 THEN parts[1]
    ELSE parts[1] \o sep \o join(sep, Tail(parts))

\* True when needle occurs in hay as a contiguous run.
Contains(hay, needle) ==
    \E i \in 0..(Len(hay) - Len(needle)) :
        SubSeq(hay, i + 1, i + Len(needle)) = needle

(* --------------------------- context store ----------------------------- *)
\* faulty variant: a plain list, nothing is evicted
deque_append_unbounded(h, turn) == Append(h, turn)

\* faulty variant: at capacity the newest turn is dropped instead of the oldest
deque_append_drop_newest(h, turn) ==
    IF Len(h) >= MAXLEN THEN Append(SubSeq(h, 1, Len(h) - 1), turn) ELSE Append(h, turn)

\* deque(maxlen=5).append
deque_append(h, turn) ==
    IF Len(h) >= MAXLEN THEN Append(Tail(h), turn) ELSE Append(h, turn)

format_turn(turn) == USER_PREFIX \o turn[1] \o NL \o BOT_PREFIX \o turn[2]

\* faulty variant: the most recent turn is left out of the transcript
get_chat_context_skip_last(h) ==
    join(NL, [i \in 1..(Len(h) - 1) |-> format_turn(h[i])])

\* faulty variant: only the first turn of the window is rendered
get_chat_context_first_only(h) ==
    IF h = <<>> THEN <<>> ELSE format_turn(h[1])

get_chat_context(h) == join(NL, [i \in 1..Len(h) |-> format_turn(h[i])])

(* ---------------------------- prompt helpers --------------------------- *)
sql_prompt(context, user_input) ==
    SCHEMA_PROMPT \o NL
        \o <<"C","o","n","v","e","r","s","a","t","i","o","n"," ","s","o"," ","f","a","r",":">>
        \o NL \o context \o NL \o NL
        \o USER_PREFIX \o user_input \o NL \o <<"S", "Q", "L", ":">>

extract_sql(text) == strip(strip(strip(text, Whitespace), Chars(FENCE_SQL)), Chars(FENCE))

(* ------------------------------ inputs --------------------------------- *)
ReqInputs == { [user_id |-> 1, message |-> <<"a">>],
               [user_id |-> 2, message |-> <<"b">>] }
OneInput == { [user_id |-> 1, message |-> <<"a">>] }
NoReq == [user_id |-> 0, message |-> Unset]

\* raw answers of the language model to the SQL prompt
RawTexts == { FENCE_SQL \o NL \o <<"Q">> \o NL \o FENCE }
\* every text of at most MaxInner characters over InnerAlphabet, bare or
\* inside a sql code fence, with or without surrounding newlines
InnerAlphabet == {"s", "Q", " ", BACKTICK}
TextsUpTo(n) == UNION { [1..k -> InnerAlphabet] : k \in 0..n }
Pads == { <<>>, NL }
RawInputs ==
    { p1 \o body \o p2 :
        p1 \in Pads, p2 \in Pads,
        body \in TextsUpTo(MaxInner)
                 \cup { FENCE_SQL \o NL \o x \o NL \o FENCE : x \in TextsUpTo(MaxInner) } }
\* raw answers of the language model to the formatting prompt
RawReplies == { <<" ", "x", "\n">> }

RowSets == { << [bus_number |-> "PB01"] >> }
ErrorTexts == { <<"E">> }
NoResults == [kind |-> "unset", rows |-> <<>>, error |-> <<>>]
Rows(r) == [kind |-> "rows", rows |-> r, error |-> <<>>]
ErrorDescriptor(m) == [kind |-> "error", rows |-> <<>>, error |-> m]

(* ------------------------------- state --------------------------------- *)
Init ==
    /\ chat_history = <<>>
    /\ connected = TRUE
    /\ pending = <<>>
    /\ chatlogs = <<>>
    /\ pc = [t \in Threads |-> "Idle"]
    /\ req = [t \in Threads |-> NoReq]
    /\ raw_text = [t \in Threads |-> Unset]
    /\ sql_query = [t \in Threads |-> Unset]
    /\ results = [t \in Threads |-> NoResults]
    /\ response_text = [t \in Threads |-> Unset]
    /\ gen_context = [t \in Threads |-> Unset]
    /\ fmt_context = [t \in Threads |-> Unset]
    /\ response = [t \in Threads |-> <<>>]
    /\ error = [t \in Threads |-> "none"]
    /\ started = 0
    /\ own_row = [t \in Threads |-> "none"]
    /\ appended = <<>>
    /\ formatted = <<>>
    /\ logged = 0

\* A pool thread picks up a new POST /chat once its previous invocation has
\* returned or raised; the locals of the previous invocation are gone.
Receive(t, inputs, maxReq) ==
    /\ pc[t] \in {"Idle", "Responded", "Failed"}
    /\ started < maxReq
    /\ \E r \in inputs : req' = [req EXCEPT ![t] = r]
    /\ pc' = [pc EXCEPT ![t] = "Received"]
    /\ raw_text' = [raw_text EXCEPT ![t] = Unset]
    /\ sql_query' = [sql_query EXCEPT ![t] = Unset]
    /\ results' = [results EXCEPT ![t] = NoResults]
    /\ response_text' = [response_text EXCEPT ![t] = Unset]
    /\ gen_context' = [gen_context EXCEPT ![t] = Unset]
    /\ fmt_context' = [fmt_context EXCEPT ![t] = Unset]
    /\ response' = [response EXCEPT ![t] = <<>>]
    /\ error' = [error EXCEPT ![t] = "none"]
    /\ started' = started + 1
    /\ own_row' = [own_row EXCEPT ![t] = "none"]
    /\ UNCHANGED <<chat_history, connected, pending, chatlogs, appended, formatted, logged>>

\* sql_query = generate_sql(user_input), the model call answers
GenerateSql(t, raws) ==
    /\ pc[t] = "Received"
    /\ gen_context' = [gen_context EXCEPT ![t] = get_chat_context(chat_history)]
    /\ \E raw \in raws :
         /\ raw_text' = [raw_text EXCEPT ![t] = raw]
         /\ sql_query' = [sql_query EXCEPT ![t] = extract_sql(raw)]
    /\ pc' = [pc EXCEPT ![t] = "SQLGenerated"]
    /\ UNCHANGED <<chat_history, connected, pending, chatlogs, req, results,
                   response_text, fmt_context, response, error,
                   started, appended, formatted, logged, own_row>>

\* generate_sql raises (the model call fails): nothing catches it
GenerateSqlFails(t) ==
    /\ pc[t] = "Received"
    /\ gen_context' = [gen_context EXCEPT ![t] = get_chat_context(chat_history)]
    /\ pc' = [pc EXCEPT ![t] = "Failed"]
    /\ error' = [error EXCEPT ![t] = "generation"]
    /\ UNCHANGED <<chat_history, connected, pending, chatlogs, req, raw_text, sql_query,
                   results, response_text, fmt_context, response,
                   started, appended, formatted, logged, own_row>>

\* The connection drops: the server rolls back the open transaction, and the
\* program never reconnects.
ConnectionLost ==
    /\ connected' = FALSE
    /\ pending' = <<>>
    /\ own_row' = [u \in Threads |-> IF own_row[u] = "pending" THEN "none" ELSE own_row[u]]

\* faulty variant: no try/except, an execution error aborts the request
Execute_propagates(t) ==
    /\ pc[t] = "SQLGenerated"
    /\ \/ /\ connected
          /\ \E r \in RowSets : results' = [results EXCEPT ![t] = Rows(r)]
          /\ pc' = [pc EXCEPT ![t] = "Executed"]
          /\ error' = error
       \/ /\ pc' = [pc EXCEPT ![t] = "Failed"]
          /\ error' = [error EXCEPT ![t] = "query"]
          /\ results' = results
    /\ UNCHANGED <<chat_history, connected, pending, chatlogs, req, raw_text, sql_query,
                   response_text, gen_context, fmt_context, response,
                   started, own_row, appended, formatted, logged>>

\* try: cursor.execute(sql_query); results = cursor.fetchall()
\* except Exception as e: results = {"error": str(e)}
\* The statement is a query: it reads the store and leaves it as it is.
Execute(t) ==
    /\ pc[t] = "SQLGenerated"
    /\ \/ /\ connected
          /\ \E r \in RowSets : results' = [results EXCEPT ![t] = Rows(r)]
          /\ UNCHANGED <<connected, pending, own_row>>
       \/ /\ \E m \in ErrorTexts :
               results' = [results EXCEPT ![t] = ErrorDescriptor(m)]
          /\ \/ UNCHANGED <<connected, pending, own_row>>
             \/ connected /\ ConnectionLost
    /\ pc' = [pc EXCEPT ![t] = "Executed"]
    /\ UNCHANGED <<chat_history, chatlogs, req, raw_text, sql_query,
                   response_text, gen_context, fmt_context, response,
                   error, started, appended, formatted, logged>>

\* response_text = format_response(results, user_input), the model answers
Format(t, replies) ==
    /\ pc[t] = "Executed"
    /\ fmt_context' = [fmt_context EXCEPT ![t] = get_chat_context(chat_history)]
    /\ \E raw \in replies :
         response_text' = [response_text EXCEPT ![t] = strip(raw, Whitespace)]
    /\ formatted' = Append(formatted, <<req[t].message, response_text'[t]>>)
    /\ pc' = [pc EXCEPT ![t] = "Formatted"]
    /\ UNCHANGED <<chat_history, connected, pending, chatlogs, req, raw_text, sql_query,
                   results, gen_context, response, error, started,
                   appended, logged, own_row>>

\* format_response raises (the model call fails): nothing catches it
FormatFails(t) ==
    /\ pc[t] = "Executed"
    /\ fmt_context' = [fmt_context EXCEPT ![t] = get_chat_context(chat_history)]
    /\ pc' = [pc EXCEPT ![t] = "Failed"]
    /\ error' = [error EXCEPT ![t] = "formatting"]
    /\ UNCHANGED <<chat_history, connected, pending, chatlogs, req, raw_text, sql_query,
                   results, response_text, gen_context, response,
                   started, appended, formatted, logged, own_row>>

\* chat_history.append((user_input, response_text))
AppendTurn(t) ==
    /\ pc[t] = "Formatted"
    /\ chat_history' = deque_append(chat_history, <<req[t].message, response_text[t]>>)
    /\ appended' = Append(appended, <<req[t].message, response_text[t]>>)
    /\ pc' = [pc EXCEPT ![t] = "Appended"]
    /\ UNCHANGED <<connected, pending, chatlogs, locals, response, error, started,
                   formatted, logged, own_row>>

\* The row of the INSERT, without created_at and the chat_id the store assigns.
chat_record(t) ==
    [user_id |-> req[t].user_id, message_text |-> req[t].message,
     response_text |-> response_text[t]]

\* cursor.execute(insert_chat, ...): the row joins the open transaction of
\* the one connection db that every invocation uses (autocommit is off,
\* which is why the handler calls db.commit()).
InsertChat(t) ==
    /\ pc[t] = "Appended"
    /\ connected
    /\ pending' = Append(pending, chat_record(t))
    /\ own_row' = [own_row EXCEPT ![t] = "pending"]
    /\ pc' = [pc EXCEPT ![t] = "Inserted"]
    /\ UNCHANGED <<chat_history, connected, chatlogs, locals, response, error, started,
                   appended, formatted, logged>>

\* cursor.execute(insert_chat, ...) raises: nothing catches it.  Either the
\* statement is refused, which leaves the open transaction as it is (the
\* handler never rolls back), or the connection is or goes down.
InsertChatFails(t) ==
    /\ pc[t] = "Appended"
    /\ \/ UNCHANGED <<connected, pending, own_row>>
       \/ connected /\ ConnectionLost
    /\ pc' = [pc EXCEPT ![t] = "Failed"]
    /\ error' = [error EXCEPT ![t] = "logging"]
    /\ UNCHANGED <<chat_history, chatlogs, locals, response, started,
                   appended, formatted, logged>>

\* db.commit(): every row the connection holds becomes durable, whichever
\* invocation inserted it
Commit(t) ==
    /\ pc[t] = "Inserted"
    /\ connected
    /\ chatlogs' = chatlogs \o pending
    /\ pending' = <<>>
    /\ own_row' = [u \in Threads |-> IF own_row[u] = "pending" THEN "durable" ELSE own_row[u]]
    /\ logged' = logged + 1
    /\ pc' = [pc EXCEPT ![t] = "Logged"]
    /\ UNCHANGED <<chat_history, connected, locals, response, error, started,
                   appended, formatted>>

\* faulty variant: the failed commit is swallowed and the handler carries on
CommitFails_swallowed(t) ==
    /\ pc[t] = "Inserted"
    /\ pc' = [pc EXCEPT ![t] = "Logged"]
    /\ error' = [error EXCEPT ![t] = "logging"]
    /\ UNCHANGED <<chat_history, connected, pending, chatlogs, locals, response, started,
                   appended, formatted, logged, own_row>>

\* db.commit() raises, the connection being or going down: nothing catches it
CommitFails(t) ==
    /\ pc[t] = "Inserted"
    /\ \/ ~connected /\ UNCHANGED <<connected, pending, own_row>>
       \/ connected /\ ConnectionLost
    /\ pc' = [pc EXCEPT ![t] = "Failed"]
    /\ error' = [error EXCEPT ![t] = "logging"]
    /\ UNCHANGED <<chat_history, chatlogs, locals, response, started,
                   appended, formatted, logged>>

chat_response(t) ==
    [user_message |-> req[t].message, sql_query |-> sql_query[t],
     results |-> results[t], bot_response |-> response_text[t]]

\* faulty variant: the handler returns before the turn is logged
Respond_before_log(t) ==
    /\ pc[t] \in {"Appended", "Logged"}
    /\ response' = [response EXCEPT ![t] = <<chat_response(t)>>]
    /\ pc' = [pc EXCEPT ![t] = "Responded"]
    /\ UNCHANGED <<chat_history, connected, pending, chatlogs, locals, error, started,
                   appended, formatted, logged, own_row>>

\* return {...}
Respond(t) ==
    /\ pc[t] = "Logged"
    /\ response' = [response EXCEPT ![t] = <<chat_response(t)>>]
    /\ pc' = [pc EXCEPT ![t] = "Responded"]
    /\ UNCHANGED <<chat_history, connected, pending, chatlogs, locals, error, started,
                   appended, formatted, logged, own_row>>

Handler(t, inputs, maxReq, raws) ==
    \/ Receive(t, inputs, maxReq)
    \/ GenerateSql(t, raws)
    \/ GenerateSqlFails(t)
    \/ Execute(t)
    \/ Format(t, RawReplies)
    \/ FormatFails(t)
    \/ AppendTurn(t)
    \/ InsertChat(t)
    \/ InsertChatFails(t)
    \/ Commit(t)
    \/ CommitFails(t)
    \/ Respond(t)

\* Two pool threads, requests of two users.
Next == \E t \in Threads : Handler(t, ReqInputs, MaxRequests, RawTexts)

Spec == Init /\ [][Next]_vars

\* One client at a time: every request has returned or raised before the
\* next one is received.
NextSeq == \E t \in SeqThreads : Handler(t, ReqInputs, MaxRequestsSeq, RawTexts)

SpecSeq == Init /\ [][NextSeq]_vars

\* Two pool threads serving one repeated request body, long enough for the
\* deque to fill and evict.
NextLong == \E t \in Threads : Handler(t, OneInput, MaxRequestsLong, RawTexts)

SpecLong == Init /\ [][NextLong]_vars

\* One request whose SQL-generation answer ranges over RawInputs.
NextExtract ==
    \E t \in SeqThreads :
        \/ Receive(t, OneInput, 1)
        \/ GenerateSql(t, RawInputs)

SpecExtract == Init /\ [][NextExtract]_vars

(* ======================================================================= *)
(*                               properties                                *)
(* ======================================================================= *)
Min(a, b) == IF a <= b THEN a ELSE b

LastTurns(turns, k) == SubSeq(turns, Len(turns) - Min(Len(turns), k) + 1, Len(turns))

\* The transcript the documentation prescribes for a sequence of turns:
\* "User: <input>\nBot: <output>" per turn, newline-joined, oldest first.
RECURSIVE TranscriptOf(_)
TranscriptOf(turns) ==
    IF turns = <<>> THEN <<>>
    ELSE LET n == Len(turns)
             line == <<"U", "s", "e", "r", ":", " ">> \o turns[n][1]
                         \o <<"\n", "B", "o", "t", ":", " ">> \o turns[n][2]
         IN IF n = 1 THEN line
            ELSE TranscriptOf(SubSeq(turns, 1, n - 1)) \o <<"\n">> \o line

InFlight(t) == pc[t] \notin {"Idle", "Responded", "Failed"}

\* C1: in every reachable state the shared context window chat_history
\* holds at most 5 turns, whatever requests succeeded, failed or interleaved.
C1_WindowAtMostFive == Len(chat_history) <= 5

\* more than five turns were appended by interleaved requests, not all of
\* them logged, and the window is full
C1_Witness ==
    /\ Len(appended) > 5
    /\ Len(chat_history) = 5
    /\ Len(chatlogs) < Len(appended)
    /\ \A t \in Threads : InFlight(t)

\* C2: after n appended turns get_chat_context() renders exactly the last
\* min(n, 5) of them, oldest first, in the User:/Bot: template joined by
\* newlines; for n > 5 the oldest n - 5 turns are the evicted ones.
C2_RendersLastFive ==
    get_chat_context(chat_history) = TranscriptOf(LastTurns(appended, 5))

\* six or more turns were appended, and the evicted first turn differs from
\* the oldest turn still in the window
C2_Witness ==
    /\ Len(appended) > 5
    /\ appended[1] # appended[Len(appended) - 4]
    /\ chat_history[1] = appended[Len(appended) - 4]

\* C7: with sequential requests, the transcript in a request's
\* SQL-generation prompt is the rendering, in order, of the turns of the up
\* to 5 most recent requests that completed formatting before it started;
\* in particular the prompt contains the latest such turn verbatim.
C7_PromptCarriesPriorTurns ==
    \A t \in SeqThreads :
        pc[t] \in {"SQLGenerated", "Executed"} =>
            /\ gen_context[t] = TranscriptOf(LastTurns(formatted, 5))
            /\ formatted # <<>> =>
                 LET last == formatted[Len(formatted)]
                 IN Contains(sql_prompt(gen_context[t], req[t].message),
                             <<"U", "s", "e", "r", ":", " ">> \o last[1]
                                 \o <<"\n", "B", "o", "t", ":", " ">> \o last[2])

\* a later request has generated its SQL after more than five earlier
\* requests completed formatting, the latest with another message
C7_Witness ==
    \E t \in SeqThreads :
        /\ pc[t] = "SQLGenerated"
        /\ Len(formatted) > 5
        /\ formatted[Len(formatted)][1] # req[t].message
        /\ gen_context[t] # <<>>
Stage(p) ==
    CASE p = "Received" -> 1
      [] p = "SQLGenerated" -> 2
      [] p = "Executed" -> 3
      [] p \in {"Formatted", "Appended", "Inserted"} -> 4
      [] p = "Logged" -> 5
      [] p = "Responded" -> 6
      [] OTHER -> 0

Moved(t) == pc'[t] # pc[t]

Range(f) == {f[i] : i \in 1..Len(f)}

Quiescent == \A t \in Threads : ~InFlight(t)

\* C3: an error raised by executing the generated SQL is caught and becomes
\* the descriptor {error: message}; the request goes on to formatting exactly
\* as with rows and, if formatting and logging succeed, ends Responded with
\* the descriptor in its response and its turn logged.
C3_QueryErrorFedForward ==
    [][\A t \in Threads :
        /\ (pc[t] = "SQLGenerated" /\ Moved(t)) =>
              /\ pc'[t] = "Executed"
              /\ error'[t] = "none"
              /\ \/ results'[t].kind = "rows" /\ results'[t].error = <<>>
                 \/ results'[t].kind = "error" /\ results'[t].error # <<>>
        /\ (pc[t] = "Executed" /\ Moved(t)) =>
              /\ pc'[t] = "Formatted" \/ (pc'[t] = "Failed" /\ error'[t] = "formatting")
              /\ results'[t] = results[t]
        /\ (pc[t] = "Logged" /\ Moved(t) /\ results[t].kind = "error") =>
              /\ pc'[t] = "Responded"
              /\ Len(response'[t]) = 1
              /\ response'[t][1].results = results[t]
              /\ own_row[t] = "durable"
              /\ [user_id |-> req[t].user_id, message_text |-> req[t].message,
                  response_text |-> response_text[t]] \in Range(chatlogs)
    ]_vars

\* a request whose query raised has been answered, carrying the descriptor
C3_Witness ==
    \E t \in Threads :
        /\ pc[t] = "Responded"
        /\ results[t].kind = "error"
        /\ response[t] # <<>>
        /\ response[t][1].results.error # <<>>
        /\ own_row[t] = "durable"

\* C4: the persisted chatlogs records correspond 1:1 to the requests that
\* completed the logging step: there are as many records as such requests,
\* and a request has a record only if it completed the step.  Stated for
\* the states in which no request is in flight.
C4_RecordsMatchLoggedRequests ==
    Quiescent =>
        /\ Len(chatlogs) = logged
        /\ \A t \in Threads : own_row[t] = "durable" => pc[t] = "Responded"

\* C5: a request moves through Received, SQLGenerated, Executed, Formatted,
\* Logged, Responded one stage at a time (or stops by raising), whether the
\* query returned rows or an error; the response is emitted only on leaving
\* Logged and holds user_message, sql_query, results and bot_response.
C5_StagesInOrder ==
    [][\A t \in Threads :
        /\ Moved(t) =>
              \/ pc'[t] = "Received" /\ pc[t] \in {"Idle", "Responded", "Failed"}
              \/ pc'[t] = "Failed" /\ pc[t] \in {"Received", "Executed", "Appended", "Inserted"}
              \/ Stage(pc'[t]) = Stage(pc[t]) + 1 /\ Stage(pc[t]) >= 1
                    /\ pc[t] \notin {"Formatted", "Appended"}
              \/ pc[t] = "Formatted" /\ pc'[t] = "Appended"
              \/ pc[t] = "Appended" /\ pc'[t] = "Inserted"
        /\ response'[t] # <<>> => pc'[t] = "Responded"
        /\ (Moved(t) /\ pc'[t] = "Responded") =>
              /\ pc[t] = "Logged"
              /\ response'[t] =
                    << [user_message |-> req[t].message, sql_query |-> sql_query[t],
                        results |-> results[t], bot_response |-> response_text[t]] >>
    ]_vars

\* both a request with rows and a request with a query error have responded
C5_Witness ==
    /\ \A t \in Threads : pc[t] = "Responded" /\ response[t] # <<>>
    /\ \E t, u \in Threads : results[t].kind = "rows" /\ results[u].kind = "error"

\* C6: a failure of the model call in SQL generation, of the model call in
\* formatting, or of the chatlogs insert/commit ends the request in failure
\* with no response; at the logging step the computed reply is not returned.
C6_FailuresPropagate ==
    [][\A t \in Threads :
        /\ (error'[t] # "none" /\ error[t] = "none") =>
              /\ pc'[t] = "Failed"
              /\ response'[t] = <<>>
        /\ error[t] # "none" =>
              /\ pc[t] = "Failed"
              /\ response[t] = <<>>
              /\ Moved(t) => pc'[t] = "Received" /\ error'[t] = "none"
        /\ error'[t] = "logging" =>
              /\ response_text'[t] # Unset
              /\ response'[t] = <<>>
    ]_vars

\* the failures have all happened: generation or formatting in one request,
\* the insert or commit in another, which had its reply at hand
C6_Witness ==
    /\ \E t \in Threads :
         /\ pc[t] = "Failed" /\ error[t] = "logging"
         /\ response_text[t] = <<"x">>
    /\ \E t \in Threads : pc[t] = "Failed" /\ error[t] \in {"generation", "formatting"}

TrimWs(s) ==
    LET keep == {i \in 1..Len(s) : s[i] \notin {" ", "\n"}}
    IN IF keep = {} THEN <<>>
       ELSE SubSeq(s, CHOOSE i \in keep : \A j \in keep : i <= j,
                      CHOOSE i \in keep : \A j \in keep : i >= j)

HasPrefix(s, p) == Len(s) >= Len(p) /\ SubSeq(s, 1, Len(p)) = p
HasSuffix(s, p) == Len(s) >= Len(p) /\ SubSeq(s, Len(s) - Len(p) + 1, Len(s)) = p

IsFenced(text) ==
    LET s == TrimWs(text)
    IN /\ Len(s) >= Len(FENCE_SQL) + Len(FENCE)
       /\ HasPrefix(s, FENCE_SQL)
       /\ HasSuffix(s, FENCE)

\* the SQL the documentation prescribes for a raw model answer
DocumentedSql(text) ==
    LET s == TrimWs(text)
    IN IF IsFenced(text)
       THEN TrimWs(SubSeq(s, Len(FENCE_SQL) + 1, Len(s) - Len(FENCE)))
       ELSE s

\* C8: generate_sql returns, for a raw answer wrapped in a sql code fence,
\* the inner text without the fence markers and surrounding whitespace, and
\* for an answer without a fence the answer trimmed of surrounding whitespace
\* and otherwise unchanged.
C8_ExtractionAsDocumented ==
    \A t \in SeqThreads :
        pc[t] = "SQLGenerated" => sql_query[t] = DocumentedSql(raw_text[t])

\* C9: there is one window for all callers: the transcript of each prompt of
\* a request, at generation and again at formatting, is the rendering of the
\* latest (at most 5) turns appended so far by any request of any user, so a
\* turn another user's request appends in between shows in the second only.
C9_OneWindowForAllUsers ==
    [][\A t \in Threads :
        /\ (pc[t] = "Received" /\ Moved(t)) =>
              gen_context'[t] = TranscriptOf(LastTurns(appended, 5))
        /\ (pc[t] = "Executed" /\ Moved(t)) =>
              fmt_context'[t] = TranscriptOf(LastTurns(appended, 5))
    ]_vars

\* a request has formatted with a transcript that holds the turn of another
\* user's in-flight request, a turn its generation transcript did not hold
C9_Witness ==
    \E t, u \in Threads :
        LET other == <<"U", "s", "e", "r", ":", " ">> \o req[u].message
                        \o <<"\n", "B", "o", "t", ":", " ">> \o response_text[u]
        IN /\ t # u
           /\ req[t].user_id # req[u].user_id
           /\ pc[t] = "Formatted"
           /\ pc[u] \in {"Appended", "Logged"}
           /\ gen_context[t] # fmt_context[t]
           /\ ~Contains(gen_context[t], other)
           /\ Contains(fmt_context[t], other)

\* C10: a request appends its turn to the window exactly once, after its
\* formatting succeeded and before its insert; a failure in generation or in
\* formatting changes neither window nor log; a request whose insert or
\* commit fails has its turn appended but no log record and no response;
\* every logged turn is an appended one.
C10_AppendBeforeLog ==
    [][/\ \A t \in Threads :
            LET turn == <<req[t].message, response_text[t]>>
            IN /\ (Moved(t) /\ pc'[t] = "Appended") =>
                     /\ pc[t] = "Formatted"
                     /\ appended' = Append(appended, turn)
                     /\ chat_history' = LastTurns(Append(chat_history, turn), 5)
                     /\ chatlogs' = chatlogs
               /\ (Moved(t) /\ pc'[t] = "Inserted") => pc[t] = "Appended"
               /\ (Moved(t) /\ error'[t] \in {"generation", "formatting"}) =>
                     /\ chat_history' = chat_history
                     /\ appended' = appended
                     /\ chatlogs' = chatlogs
               /\ (Moved(t) /\ error'[t] = "logging") =>
                     /\ chat_history' = chat_history
                     /\ appended' = appended
                     /\ turn \in Range(appended)
                     /\ response'[t] = <<>>
               /\ (pc'[t] = "Failed" /\ error'[t] = "logging") =>
                     own_row'[t] # "durable"
       /\ (appended' # appended \/ chat_history' # chat_history) =>
            \E t \in Threads : Moved(t) /\ pc'[t] = "Appended"
       /\ \A i \in 1..Len(chatlogs') :
            <<chatlogs'[i].message_text, chatlogs'[i].response_text>> \in Range(appended')
    ]_vars

====
